---- MODULE Spec2Model ----
(***************************************************************************)
(* Eumenes: migration of a Spotify playlist to Apple Music.                *)
(*                                                                         *)
(* The model covers eumenes.add_tracks_from_CSV (the loop over the rows of *)
(* the playlist csv), the helpers it calls in eumenes.py (distance,        *)
(* addTrack) and in anabasis.py (searchSongs, get_tracks_distance,         *)
(* ro_distance, aceh_distance, selectSong, add_track_AM), and its caller   *)
(* eumenes.process.                                                        *)
(*                                                                         *)
(* Spec is the run of add_tracks_from_CSV.  SpecDistance is a call of      *)
(* get_tracks_distance on its own, SpecSelectSong a call of selectSong on  *)
(* its own with lists longer than a page, SpecProcess the steps of process *)
(* around the loop.                                                        *)
(*                                                                         *)
(* Strings are sequences of one-character strings.  Floating point values  *)
(* are fixed point numbers with Scale units to 1.0, truncated.             *)
(***************************************************************************)
EXTENDS Integers, Sequences, FiniteSets, TLC

\* fixed point: 1.0 is Scale units
Scale == 1000

----------------------------------------------------------------------------
(* Bounds of the model *)

\* rows of the playlist csv
MaxRows == 2

\* tracks in one search response
MaxCands == 2

----------------------------------------------------------------------------
(* Generic helpers *)

Range(s) == {s[k] : k \in DOMAIN s}

Abs(n) == IF n < 0 THEN -n ELSE n

\* sequences over S without repetition, of length 0..n
DistinctSeqs(S, n) ==
  {s \in UNION {[1..k -> S] : k \in 0..n} : Cardinality(Range(s)) = Len(s)}

\* math.sqrt on fixed point squares: the integer square root, by bisection
RECURSIVE SqrtBetween(_, _, _)
SqrtBetween(n, lo, hi) ==
  IF lo >= hi THEN lo
  ELSE LET mid == (lo + hi + 1) \div 2
       IN IF mid * mid <= n THEN SqrtBetween(n, mid, hi)
          ELSE SqrtBetween(n, lo, mid - 1)

sqrt(n) == SqrtBetween(n, 0, 2 * Scale)

----------------------------------------------------------------------------
(* anabasis.ro_distance: difflib.SequenceMatcher(isjunk, a.upper(),        *)
(* b.upper()).ratio().  Indices are Python's: a[i] is the TLA+ a[i + 1],   *)
(* windows are half open [alo, ahi).  The autojunk heuristic of difflib    *)
(* needs 200 or more characters and plays no part for the strings here.    *)

\* str.upper
upper(s) ==
  [k \in DOMAIN s |->
     CASE s[k] = "a" -> "A" [] s[k] = "h" -> "H" [] s[k] = "i" -> "I"
       [] s[k] = "l" -> "L" [] s[k] = "o" -> "O" [] s[k] = "q" -> "Q"
       [] s[k] = "w" -> "W" [] s[k] = "x" -> "X" [] s[k] = "z" -> "Z"
       [] OTHER -> s[k]]

\* lambda x: x in ".()"
isjunk(x) == x \in {".", "(", ")"}

\* a[i:i+k] == b[j:j+k] and no element of the block is junk
JunkFreeBlock(a, b, i, j, k) ==
  \A t \in 0..(k - 1) : a[i + t + 1] = b[j + t + 1] /\ ~isjunk(b[j + t + 1])

\* the extension loops of find_longest_match: grow the block to the left and
\* then to the right over equal elements that are junk (junk = TRUE) or are
\* not junk (junk = FALSE)
RECURSIVE ExtendLeft(_, _, _, _, _, _)
ExtendLeft(a, b, alo, blo, m, junk) ==
  IF /\ m[1] > alo /\ m[2] > blo
     /\ isjunk(b[m[2]]) = junk
     /\ a[m[1]] = b[m[2]]
  THEN ExtendLeft(a, b, alo, blo, <<m[1] - 1, m[2] - 1, m[3] + 1>>, junk)
  ELSE m

\* a block that is never grown to the right
ExtendRight_mut(a, b, ahi, bhi, m, junk) == m

RECURSIVE ExtendRight(_, _, _, _, _, _)
ExtendRight(a, b, ahi, bhi, m, junk) ==
  IF /\ m[1] + m[3] < ahi /\ m[2] + m[3] < bhi
     /\ isjunk(b[m[2] + m[3] + 1]) = junk
     /\ a[m[1] + m[3] + 1] = b[m[2] + m[3] + 1]
  THEN ExtendRight(a, b, ahi, bhi, <<m[1], m[2], m[3] + 1>>, junk)
  ELSE m

\* SequenceMatcher.find_longest_match: the longest junk-free block of the
\* window, the one that starts earliest in a and then earliest in b, or
\* (alo, blo, 0); then extended over non-junk and over junk neighbours
find_longest_match(a, b, alo, ahi, blo, bhi) ==
  LET blocks == {m \in (alo..(ahi - 1)) \X (blo..(bhi - 1)) \X (1..(ahi - alo)) :
                   /\ m[1] + m[3] <= ahi
                   /\ m[2] + m[3] <= bhi
                   /\ JunkFreeBlock(a, b, m[1], m[2], m[3])}
      best == IF blocks = {} THEN <<alo, blo, 0>>
              ELSE CHOOSE m \in blocks :
                     \A o \in blocks :
                        \/ o[3] < m[3]
                        \/ o[3] = m[3] /\ m[1] < o[1]
                        \/ o[3] = m[3] /\ m[1] = o[1] /\ m[2] <= o[2]
      e1 == ExtendLeft(a, b, alo, blo, best, FALSE)
      e2 == ExtendRight(a, b, ahi, bhi, e1, FALSE)
      e3 == ExtendLeft(a, b, alo, blo, e2, TRUE)
  IN ExtendRight(a, b, ahi, bhi, e3, TRUE)

\* SequenceMatcher.get_matching_blocks, summed: the number of matched elements
RECURSIVE matches(_, _, _, _, _, _)
matches(a, b, alo, ahi, blo, bhi) ==
  LET m == find_longest_match(a, b, alo, ahi, blo, bhi)
      i == m[1]
      j == m[2]
      k == m[3]
  IN IF k = 0 THEN 0
     ELSE k + (IF alo < i /\ blo < j THEN matches(a, b, alo, i, blo, j) ELSE 0)
            + (IF i + k < ahi /\ j + k < bhi
               THEN matches(a, b, i + k, ahi, j + k, bhi) ELSE 0)

\* SequenceMatcher.ratio: 2.0 * matches / length, 1.0 when both are empty
ratio(a, b) ==
  LET length == Len(a) + Len(b)
  IN IF length = 0 THEN Scale
     ELSE (2 * matches(a, b, 0, Len(a), 0, Len(b)) * Scale) \div length

ro_distance(a, b) == Scale - ratio(upper(a), upper(b))

----------------------------------------------------------------------------
(* anabasis.aceh_distance *)

\* arrow.get(s): the moment the string names, in hours from 2015-10-23
\* 00:00 UTC (a date alone is its midnight), or -1 for a ParserError
arrow_get(s) ==
  CASE s = "2015-10-23" -> 0
    [] s = "2015-10-23T07:00:00Z" -> 7
    [] s = "2015-11-20T07:00:00Z" -> 28 * 24 + 7
    [] s = "2016-10-22T07:00:00Z" -> 365 * 24 + 7
    [] OTHER -> -1

Parseable(s) == arrow_get(s) >= 0

\* timedelta.days of a difference given in hours: the floor, so that seven
\* hours back are -1 days (and 17 hours)
days(hours) == hours \div 24

\* math.log(1 + days / 365), tabulated where the dates above need it
log1p_years(delta) ==
  CASE delta = 0 -> 0
    [] delta = 1 -> 2
    [] delta = 28 -> 73
    [] delta = 29 -> 76
    [] delta = 337 -> 654
    [] delta = 338 -> 655
    [] delta = 365 -> 693
    [] delta = 366 -> 694

aceh_distance(a, b) ==
  LET ad == arrow_get(a)
      bd == arrow_get(b)
      l == log1p_years(Abs(days(ad - bd)))
  IN (l * Scale) \div (Scale + l)

----------------------------------------------------------------------------
(* anabasis.get_tracks_distance *)

pow2(x) == x * x

get_tracks_distance(a_track, a_artist, a_album, a_year, b_track, b_artist, b_album, b_year) ==
  LET d_track == pow2(ro_distance(a_track, b_track))
      d_artist == pow2(ro_distance(a_artist, b_artist))
      d_album == pow2(ro_distance(a_album, b_album))
      d_years == pow2(aceh_distance(a_year, b_year))
  IN sqrt(d_track + d_artist + d_album + d_years) \div 2

\* arrow.get raises inside aceh_distance and nothing on the way catches it
distance_raises(am_track, spf_track) ==
  ~Parseable(am_track.releaseDate) \/ ~Parseable(spf_track.release_date)

\* eumenes.distance: the fields handed to get_tracks_distance
distance_of_fields(am_track, spf_track) ==
  get_tracks_distance(am_track.trackName, am_track.artistName,
                      am_track.collectionName, am_track.releaseDate,
                      spf_track.title, spf_track.artist,
                      spf_track.album, spf_track.release_date)

----------------------------------------------------------------------------
(* The data the runs draw from *)

\* selectSong's None, and the value of the local `selected` before its first
\* assignment
None == [none |-> TRUE]

Str(a, b) == <<a, b>>

\* rows of the csv: title, artist, album, release_date
Songs ==
  { [title |-> Str("H", "i"), artist |-> Str("A", "l"), album |-> Str("X", "."),
     release_date |-> "2015-10-23"],
    [title |-> Str("H", "i"), artist |-> Str("A", "l"), album |-> Str("X", "."),
     release_date |-> "n/a"] }

Track(id, name, artist, album, date, streamable) ==
  [trackId |-> id, trackName |-> name, artistName |-> artist,
   collectionName |-> album, collectionCensoredName |-> album,
   releaseDate |-> date, wrapperType |-> "track", kind |-> "song",
   isStreamable |-> streamable]

\* a track of an album with an explicit title: collectionCensoredName is the
\* title with asterisks
Censored(track, name) == [track EXCEPT !.collectionCensoredName = name]

\* what the iTunes search may hold for these songs.  Against the first song:
\* track 2 is at distance 0.034, 3 and 8 both at 0.250, 5 at 0.889, the date
\* of 6 does not parse, 7 is not streamable; by its censored album name 8
\* is at 0.559
Catalogue ==
  { Track(2, Str("H", "I"), Str("a", "l"), Str("X", "."), "2015-11-20T07:00:00Z", TRUE),
    Track(3, Str("H", "o"), Str("A", "l"), Str("X", "."), "2015-10-23T07:00:00Z", TRUE),
    Track(5, Str("Z", "z"), Str("Q", "q"), Str("W", "w"), "2016-10-22T07:00:00Z", TRUE),
    Track(6, Str("H", "i"), Str("A", "l"), Str("X", "."), "n/a", TRUE),
    Track(7, Str("H", "i"), Str("A", "l"), Str("X", "."), "2015-10-23T07:00:00Z", FALSE),
    Censored(Track(8, Str("H", "o"), Str("A", "l"), Str("X", "."), "2015-10-23T07:00:00Z", TRUE),
             Str("*", ".")) }

\* eumenes.distance for every track and row of the model, computed once;
\* -1 where the call raises
Distances ==
  [am_track \in Catalogue, spf_track \in Songs |->
     IF distance_raises(am_track, spf_track) THEN -1
     ELSE distance_of_fields(am_track, spf_track)]

distance(am_track, spf_track) == Distances[am_track, spf_track]

\* results["results"] of one search response
RawResults == DistinctSeqs(Catalogue, MaxCands)

\* requests.get in searchSongs: a response (usable: json.loads and
\* ["results"] accept its body), or an exception (status 0)
Responses ==
  {[status |-> 200, usable |-> TRUE, results |-> r] : r \in RawResults}
    \cup {[status |-> st, usable |-> FALSE, results |-> <<>>] :
            st \in {200, 403, 500, 0}}

\* requests.get raised (a timeout, no connection)
RequestFailed(resp) == resp.status = 0

\* what the user may type at the prompt of selectSong
Answers == {"s", "S", "n", "p", "0", "1", "7", ""}

\* the policy parameters of add_tracks_from_CSV
ErrValues == {110, 250}

TresholdValues == {250, 400}

----------------------------------------------------------------------------
(* The state of add_tracks_from_CSV and of the calls it makes *)

VARIABLES
  pc,            \* where the run is: "for", "search", "candidates", "decide",
                 \* "input", "add", "return", "raise"
  headers_ok,    \* headers.conf and the storefront list can be read
  row,           \* rows of the csv file read so far
  cfg,           \* _add_tracks, _err, _auto, _treshold
  song,          \* the row being matched
  candidates,    \* local of add_tracks_from_CSV; `songs` inside selectSong
  dist,          \* local of add_tracks_from_CSV
  selected,      \* local of add_tracks_from_CSV, kept from row to row
  am_playlist,   \* the result
  page,          \* local of selectSong
  shown,         \* what displayCandidates printed last: <<number, distance>>
  \* the record of the current row, for the properties
  found,         \* what searchSongs returned
  searchLog,     \* what the searchSongs call that just returned did: its
                 \* requests with their status, and its sleep
  distCalls,     \* calls of distance made by add_tracks_from_CSV
  chooserCalls,  \* calls of selectSong
  chooserArg,    \* the list selectSong was called with
  ans,           \* the last answer typed
  addCalls,      \* the track ids add requests were sent for
  addStatus,     \* the status add_track_AM returned for each of them
  appended,      \* the tracks appended to am_playlist
  outcome,       \* "none", "Selected", "Skipped", "Raised"
  raised,        \* the exception that left add_tracks_from_CSV, or "none"
  \* a call of get_tracks_distance on its own
  descriptors,   \* the two track descriptors it is called with
  d_,            \* its end: state "returned" with the value of its local d_,
                 \* "raised", or "none" before the call
  \* eumenes.process
  proc           \* its position, its arguments and locals, the files it wrote

vars == <<pc, headers_ok, row, cfg, song, candidates, dist, selected,
          am_playlist, page, shown, found, searchLog, distCalls, chooserCalls,
          chooserArg, ans, addCalls, addStatus, appended, outcome, raised,
          descriptors, d_, proc>>

\* the state outside add_tracks_from_CSV
outside == <<descriptors, d_, proc>>

\* the state of add_tracks_from_CSV
inside == <<pc, headers_ok, row, cfg, song, candidates, dist, selected,
            am_playlist, page, shown, found, searchLog, distCalls, chooserCalls,
            chooserArg, ans, addCalls, addStatus, appended, outcome, raised>>

inputs == <<headers_ok, cfg>>

locals == <<song, candidates, dist, selected, page, shown>>

rowlog == <<found, distCalls, chooserCalls, chooserArg, ans, addCalls, addStatus,
            appended>>

NoSong == [title |-> <<>>, artist |-> <<>>, album |-> <<>>, release_date |-> ""]

\* the defaults of add_tracks_from_CSV's parameters
Defaults == [_add_tracks |-> TRUE, _err |-> 110, _auto |-> TRUE, _treshold |-> 400]

\* add_tracks_from_CSV on entry: am_playlist = [], nothing read yet
Entered ==
  /\ pc = "for"
  /\ row = 0
  /\ song = NoSong
  /\ candidates = <<>>
  /\ dist = 0
  /\ selected = None
  /\ am_playlist = <<>>
  /\ page = 0
  /\ shown = <<>>
  /\ found = <<>>
  /\ searchLog = <<>>
  /\ distCalls = 0
  /\ chooserCalls = 0
  /\ chooserArg = <<>>
  /\ ans = ""
  /\ addCalls = <<>>
  /\ addStatus = <<>>
  /\ appended = <<>>
  /\ outcome = "none"
  /\ raised = "none"

\* no call of get_tracks_distance on its own
NoCall == descriptors = <<>> /\ d_ = [state |-> "none", value |-> 0]

\* process is not part of the run
NoProcess == proc = [pc |-> "none"]

Init ==
  /\ headers_ok \in BOOLEAN
  /\ cfg \in [_add_tracks : BOOLEAN, _err : ErrValues, _auto : BOOLEAN,
              _treshold : TresholdValues]
  /\ Entered
  /\ NoCall
  /\ NoProcess

\* an exception leaves add_tracks_from_CSV: nothing in it, in process or in
\* the main block catches one
Raise(e) ==
  /\ pc' = "raise"
  /\ raised' = e
  /\ outcome' = "Raised"

----------------------------------------------------------------------------
(* for row in reader *)

\* the reader yields one more row (the file holds MaxRows rows at most)
NextRow ==
  /\ pc = "for"
  /\ row < MaxRows
  /\ \E s \in Songs : song' = s
  /\ row' = row + 1
  /\ pc' = "search"
  /\ found' = <<>>
  /\ searchLog' = <<>>
  /\ distCalls' = 0
  /\ chooserCalls' = 0
  /\ chooserArg' = <<>>
  /\ ans' = ""
  /\ addCalls' = <<>>
  /\ addStatus' = <<>>
  /\ appended' = <<>>
  /\ outcome' = "none"
  /\ shown' = <<>>
  /\ UNCHANGED <<outside, inputs, candidates, dist, selected, am_playlist, page, raised>>

\* the reader is exhausted: return am_playlist.  The locals end with the
\* call, and the record of the last row with them.
EndOfFile ==
  /\ pc = "for"
  /\ pc' = "return"
  /\ song' = NoSong
  /\ candidates' = <<>>
  /\ dist' = 0
  /\ selected' = None
  /\ page' = 0
  /\ shown' = <<>>
  /\ found' = <<>>
  /\ distCalls' = 0
  /\ chooserCalls' = 0
  /\ chooserArg' = <<>>
  /\ ans' = ""
  /\ addCalls' = <<>>
  /\ addStatus' = <<>>
  /\ appended' = <<>>
  /\ outcome' = "none"
  /\ UNCHANGED <<outside, inputs, row, am_playlist, searchLog, raised>>

----------------------------------------------------------------------------
(* anabasis.searchSongs *)

\* the filter over results["results"]
Qualifies(res) ==
  res.wrapperType = "track" /\ res.kind = "song" /\ res.isStreamable = TRUE

\* the value searchSongs returns for the response it ends up with: the
\* qualifying results, or [] from the except branch
search_result(resp) ==
  IF RequestFailed(resp) \/ ~resp.usable THEN <<>>
  ELSE SelectSeq(resp.results, Qualifies)

\* the entries of searchLog: a requests.get with the status it got, and
\* sleep(delay)
Get(resp) ==
  [call |-> "requests.get", status |-> resp.status, usable |-> resp.usable]

Sleep == [call |-> "sleep", status |-> 0, usable |-> FALSE]

\* sleep(delay) with a delay that is no number (the text of the -d option):
\* a TypeError, inside the try block
SleepRaises == [call |-> "sleep raises", status |-> 0, usable |-> FALSE]

\* a second request after any answer that is not a 200
retries_mut(resp) == resp.status # 200

\* the second request is made when the first answer is 403
retries(resp) == resp.status = 403

\* _headers and _storefront run before the try block: a missing or broken
\* headers.conf or storefront list raises out of searchSongs
SearchFails ==
  /\ pc = "search"
  /\ ~headers_ok
  /\ Raise("IOError")
  /\ UNCHANGED <<outside, inputs, row, locals, am_playlist, rowlog, searchLog>>

SearchSongs ==
  /\ pc = "search"
  /\ headers_ok
  /\ \E first \in Responses :
       IF ~RequestFailed(first) /\ retries(first)
       THEN \/ \E second \in Responses :
                 /\ candidates' = search_result(second)
                 /\ searchLog' = <<Get(first), Sleep, Get(second)>>
            \/ /\ candidates' = <<>>
               /\ searchLog' = <<Get(first), SleepRaises>>
       ELSE /\ candidates' = search_result(first)
            /\ searchLog' = <<Get(first)>>
  /\ found' = candidates'
  /\ pc' = "candidates"
  /\ UNCHANGED <<outside, inputs, row, song, dist, selected, page, shown, am_playlist,
                 distCalls, chooserCalls, chooserArg, ans, addCalls, addStatus, appended,
                 outcome, raised>>

----------------------------------------------------------------------------
(* sorted(candidates, key=lambda x: distance(x, song)) *)

\* where the binary insertion of list.sort puts an element with key k into
\* the sorted prefix: after every element whose key is less than or equal
bisect_mut(keys, k) == Cardinality({n \in DOMAIN keys : keys[n] < k})

bisect(keys, k) == Cardinality({n \in DOMAIN keys : keys[n] <= k})

InsertAt(s, n, e) == SubSeq(s, 1, n) \o <<e>> \o SubSeq(s, n + 1, Len(s))

\* the first n elements of s, sorted by the distance to spf_track
RECURSIVE SortPrefix(_, _, _)
SortPrefix(s, n, spf_track) ==
  IF n = 0 THEN <<>>
  ELSE LET done == SortPrefix(s, n - 1, spf_track)
           keys == [m \in DOMAIN done |-> distance(done[m], spf_track)]
       IN InsertAt(done, bisect(keys, distance(s[n], spf_track)), s[n])

sorted_mut(s, spf_track) == s

sorted(s, spf_track) == SortPrefix(s, Len(s), spf_track)

\* the key function raises for the first element whose date does not parse:
\* the number of calls of distance made up to and including that one
FirstRaise(s, spf_track) ==
  CHOOSE n \in DOMAIN s :
    /\ distance_raises(s[n], spf_track)
    /\ \A m \in 1..(n - 1) : ~distance_raises(s[m], spf_track)

----------------------------------------------------------------------------
(* the branches on len(candidates) *)

\* a test no list passes
no_candidates_mut(c) == Len(c) < 0

\* len(candidates) == 0
no_candidates(c) == Len(c) = 0

one_candidate_mut(c) == Len(c) = 2

\* len(candidates) == 1
one_candidate(c) == Len(c) = 1

FallThrough == "add"

\* `continue` after "Couldn't find ...": on to the next row
continue_not_found == "for"

\* no `continue`: on to the add step with selected = None
continue_skipped_mut == "add"

\* `continue` after the user skipped the track
continue_skipped == "for"

NoCandidates ==
  /\ pc = "candidates"
  /\ no_candidates(candidates)
  /\ pc' = continue_not_found
  /\ outcome' = "Skipped"
  /\ searchLog' = <<>>
  /\ UNCHANGED <<outside, inputs, row, locals, am_playlist, rowlog, raised>>

OneCandidate ==
  /\ pc = "candidates"
  /\ ~no_candidates(candidates)
  /\ one_candidate(candidates)
  /\ selected' = candidates[1]
  /\ pc' = "add"
  /\ outcome' = "Selected"
  /\ searchLog' = <<>>
  /\ UNCHANGED <<outside, inputs, row, song, candidates, dist, page, shown, am_playlist,
                 rowlog, raised>>

\* the else branch, when the key function raises: the exception leaves
\* sorted and add_tracks_from_CSV
SortRaises ==
  /\ pc = "candidates"
  /\ ~no_candidates(candidates)
  /\ ~one_candidate(candidates)
  /\ \E n \in DOMAIN candidates : distance_raises(candidates[n], song)
  /\ distCalls' = distCalls + FirstRaise(candidates, song)
  /\ Raise("ParserError")
  /\ searchLog' = <<>>
  /\ UNCHANGED <<outside, inputs, row, locals, am_playlist, found, chooserCalls,
                 chooserArg, ans, addCalls, addStatus, appended>>

\* the else branch: sort, log every candidate with its distance, take the
\* distance of the first.  candidates[0] of an empty list is an IndexError.
SortCandidates ==
  /\ pc = "candidates"
  /\ ~no_candidates(candidates)
  /\ ~one_candidate(candidates)
  /\ \A n \in DOMAIN candidates : ~distance_raises(candidates[n], song)
  /\ candidates' = sorted(candidates, song)
  /\ IF Len(candidates) = 0
     THEN /\ Raise("IndexError")
          /\ UNCHANGED <<dist, distCalls>>
     ELSE /\ dist' = distance(candidates'[1], song)
          /\ distCalls' = distCalls + 2 * Len(candidates) + 1
          /\ pc' = "decide"
          /\ UNCHANGED <<outcome, raised>>
  /\ searchLog' = <<>>
  /\ UNCHANGED <<outside, inputs, row, song, selected, page, shown, am_playlist, found,
                 chooserCalls, chooserArg, ans, addCalls, addStatus, appended>>

----------------------------------------------------------------------------
(* the decision on the best match *)

within_rounding_error_mut(d, _err) == d > _err

\* dist < _err
within_rounding_error(d, _err) == d < _err

auto_accept_mut(_auto, d, _treshold) == d < _treshold

\* _auto and (dist < _treshold)
auto_accept(_auto, d, _treshold) == _auto /\ d < _treshold

RoundingError ==
  /\ pc = "decide"
  /\ within_rounding_error(dist, cfg._err)
  /\ selected' = candidates[1]
  /\ pc' = "add"
  /\ outcome' = "Selected"
  /\ UNCHANGED <<outside, inputs, row, song, candidates, dist, page, shown, am_playlist,
                 rowlog, searchLog, raised>>

AutoAccept ==
  /\ pc = "decide"
  /\ ~within_rounding_error(dist, cfg._err)
  /\ auto_accept(cfg._auto, dist, cfg._treshold)
  /\ selected' = candidates[1]
  /\ pc' = "add"
  /\ outcome' = "Selected"
  /\ UNCHANGED <<outside, inputs, row, song, candidates, dist, page, shown, am_playlist,
                 rowlog, searchLog, raised>>

----------------------------------------------------------------------------
(* anabasis.selectSong and anabasis.displayCandidates *)

pageSize == 10

\* the d of displayCandidates: get_tracks_distance on the censored album
\* name, for every track and row of the model, computed once; -1 where the
\* call raises
DisplayedDistances ==
  [s \in Catalogue, spf_track \in Songs |->
     IF distance_raises(s, spf_track) THEN -1
     ELSE get_tracks_distance(s.trackName, s.artistName,
                              s.collectionCensoredName, s.releaseDate,
                              spf_track.title, spf_track.artist,
                              spf_track.album, spf_track.release_date)]

\* s[start:end]
Slice(s, start, end) ==
  SubSeq(s, start + 1, IF end < Len(s) THEN end ELSE Len(s))

\* the lines displayCandidates prints: the number and the distance of each
\* candidate of the page
displayCandidates(cands, spf_track, pageStart) ==
  [n \in DOMAIN cands |-> <<n - 1 + pageStart, DisplayedDistances[cands[n], spf_track]>>]

\* the top of the while loop: the page that is displayed
display(songs, desiredSong, p) ==
  displayCandidates(Slice(songs, p * pageSize, p * pageSize + pageSize),
                    desiredSong, p * pageSize)

\* str.lower
lower(a) ==
  CASE a = "S" -> "s" [] a = "N" -> "n" [] a = "P" -> "p" [] OTHER -> a

\* str.isdigit
isdigit(a) == a \in {"0", "1", "2", "3", "4", "5", "6", "7", "8", "9"}

\* int(ans)
int(a) ==
  CASE a = "0" -> 0 [] a = "1" -> 1 [] a = "2" -> 2 [] a = "3" -> 3
    [] a = "4" -> 4 [] a = "5" -> 5 [] a = "6" -> 6 [] a = "7" -> 7
    [] a = "8" -> 8 [] a = "9" -> 9

\* the else branch of the decision: selected = anabasis.selectSong(candidates,
\* song), up to its first prompt
CallSelectSong ==
  /\ pc = "decide"
  /\ ~within_rounding_error(dist, cfg._err)
  /\ ~auto_accept(cfg._auto, dist, cfg._treshold)
  /\ page' = 0
  /\ shown' = display(candidates, song, 0)
  /\ chooserCalls' = chooserCalls + 1
  /\ chooserArg' = candidates
  /\ pc' = "input"
  /\ UNCHANGED <<outside, inputs, row, song, candidates, dist, selected, am_playlist,
                 found, searchLog, distCalls, ans, addCalls, addStatus, appended, outcome,
                 raised>>

\* "s": selectSong returns None and the caller continues with the next row
AnswerSkip ==
  /\ pc = "input"
  /\ \E a \in Answers : lower(a) = "s" /\ ans' = a
  /\ selected' = None
  /\ page' = 0
  /\ pc' = continue_skipped
  /\ outcome' = "Skipped"
  /\ UNCHANGED <<outside, inputs, row, song, candidates, dist, shown, am_playlist, found,
                 searchLog, distCalls, chooserCalls, chooserArg, addCalls, addStatus,
                 appended, raised>>

\* "n": the next page, if there is one, and the prompt again
AnswerNext ==
  /\ pc = "input"
  /\ \E a \in Answers : lower(a) = "n" /\ ans' = a
  /\ page' = IF page + 1 > Len(candidates) \div pageSize THEN page ELSE page + 1
  /\ shown' = display(candidates, song, page')
  /\ UNCHANGED <<pc, outside, inputs, row, song, candidates, dist, selected, am_playlist,
                 found, searchLog, distCalls, chooserCalls, chooserArg, addCalls, addStatus,
                 appended, outcome, raised>>

\* "p": the previous page, if there is one, and the prompt again
AnswerPrevious ==
  /\ pc = "input"
  /\ \E a \in Answers : lower(a) = "p" /\ ans' = a
  /\ page' = IF page = 0 THEN page ELSE page - 1
  /\ shown' = display(candidates, song, page')
  /\ UNCHANGED <<pc, outside, inputs, row, song, candidates, dist, selected, am_playlist,
                 found, searchLog, distCalls, chooserCalls, chooserArg, addCalls, addStatus,
                 appended, outcome, raised>>

\* digits: return songs[int(ans)]; an index past the end is an IndexError
\* that leaves selectSong and add_tracks_from_CSV
AnswerNumber ==
  /\ pc = "input"
  /\ \E a \in Answers :
       /\ lower(a) \notin {"s", "n", "p"}
       /\ isdigit(a)
       /\ ans' = a
       /\ IF int(a) < Len(candidates)
          THEN /\ selected' = candidates[int(a) + 1]
               /\ pc' = "add"
               /\ outcome' = "Selected"
               /\ UNCHANGED raised
          ELSE /\ Raise("IndexError")
               /\ UNCHANGED selected
  /\ page' = 0
  /\ UNCHANGED <<outside, inputs, row, song, candidates, dist, shown, am_playlist, found,
                 searchLog, distCalls, chooserCalls, chooserArg, addCalls, addStatus,
                 appended>>

\* anything else: return songs[0]
AnswerOther ==
  /\ pc = "input"
  /\ \E a \in Answers :
       /\ lower(a) \notin {"s", "n", "p"}
       /\ ~isdigit(a)
       /\ ans' = a
  /\ selected' = candidates[1]
  /\ page' = 0
  /\ pc' = "add"
  /\ outcome' = "Selected"
  /\ UNCHANGED <<outside, inputs, row, song, candidates, dist, shown, am_playlist, found,
                 searchLog, distCalls, chooserCalls, chooserArg, addCalls, addStatus,
                 appended, raised>>

----------------------------------------------------------------------------
(* eumenes.addTrack, anabasis.add_track_AM and the end of the loop body *)

\* the status add_track_AM returns; 0 stands for an exception inside
\* add_track_AM, which addTrack catches and logs
AddResponses == {200, 403, 404, 400, 500, 0}

\* a 403 taken for a success
addTrack_mut(resp) == resp \in {200, 403}

\* addTrack: True for requests.codes.ok, False for everything else
addTrack(resp) == resp = 200

\* _add_tracks is set: the track joins the playlist if addTrack says so.
\* selected['trackId'] of None is a TypeError.
AddTrack ==
  /\ pc = "add"
  /\ cfg._add_tracks
  /\ IF selected = None
     THEN /\ Raise("TypeError")
          /\ UNCHANGED <<am_playlist, addCalls, addStatus, appended>>
     ELSE /\ \E resp \in AddResponses :
               /\ am_playlist' = IF addTrack(resp)
                                 THEN Append(am_playlist, selected)
                                 ELSE am_playlist
               /\ appended' = IF addTrack(resp)
                              THEN Append(appended, selected)
                              ELSE appended
               /\ addStatus' = Append(addStatus, resp)
          /\ addCalls' = Append(addCalls, selected.trackId)
          /\ pc' = "for"
          /\ UNCHANGED <<outcome, raised>>
  /\ UNCHANGED <<outside, inputs, row, locals, found, searchLog, distCalls, chooserCalls,
                 chooserArg, ans>>

\* _add_tracks is not set: the track joins the playlist
KeepTrack ==
  /\ pc = "add"
  /\ ~cfg._add_tracks
  /\ IF selected = None
     THEN /\ Raise("TypeError")
          /\ UNCHANGED <<am_playlist, appended>>
     ELSE /\ am_playlist' = Append(am_playlist, selected)
          /\ appended' = Append(appended, selected)
          /\ pc' = "for"
          /\ UNCHANGED <<outcome, raised>>
  /\ UNCHANGED <<outside, inputs, row, locals, found, searchLog, distCalls, chooserCalls,
                 chooserArg, ans, addCalls, addStatus>>

----------------------------------------------------------------------------

Next ==
  \/ NextRow
  \/ EndOfFile
  \/ SearchFails
  \/ SearchSongs
  \/ NoCandidates
  \/ OneCandidate
  \/ SortRaises
  \/ SortCandidates
  \/ RoundingError
  \/ AutoAccept
  \/ CallSelectSong
  \/ AnswerSkip
  \/ AnswerNext
  \/ AnswerPrevious
  \/ AnswerNumber
  \/ AnswerOther
  \/ AddTrack
  \/ KeepTrack

Spec == Init /\ [][Next]_vars

----------------------------------------------------------------------------
(* anabasis.get_tracks_distance called on its own, with two descriptors     *)
(* (track, artist, album, year): titles of up to MaxLen characters, artist  *)
(* and album names of one character at most                                 *)

\* characters of a title
MaxLen == 2

\* a letter and two of the junk characters
Alphabet == {"a", ".", "("}

Strings(n) == UNION {[1..k -> Alphabet] : k \in 0..n}

Dates == {"2015-10-23", "2015-10-23T07:00:00Z", "n/a"}

Descriptors ==
  [track : Strings(MaxLen), artist : Strings(1), album : Strings(1), year : Dates]

\* descriptors every other one is compared with
Probes ==
  { [track |-> <<"a">>, artist |-> <<"a">>, album |-> <<".">>, year |-> "2015-10-23"],
    [track |-> <<"(">>, artist |-> <<>>, album |-> <<"a">>,
     year |-> "2015-10-23T07:00:00Z"],
    [track |-> <<>>, artist |-> <<".">>, album |-> <<>>, year |-> "n/a"] }

\* the calls looked at: a descriptor with itself, and with a probe on either
\* side
Calls ==
  {<<a, a>> : a \in Descriptors}
    \cup (Descriptors \X Probes) \cup (Probes \X Descriptors)

InitDistance ==
  /\ descriptors \in Calls
  /\ d_ = [state |-> "none", value |-> 0]
  /\ headers_ok = TRUE
  /\ cfg = Defaults
  /\ Entered
  /\ NoProcess

\* the call: arrow.get raises inside aceh_distance for a year it cannot parse,
\* otherwise d_ is returned
GetTracksDistance ==
  /\ d_.state = "none"
  /\ descriptors # <<>>
  /\ LET a == descriptors[1]
         b == descriptors[2]
     IN d_' = IF ~Parseable(a.year) \/ ~Parseable(b.year)
              THEN [state |-> "raised", value |-> 0]
              ELSE [state |-> "returned",
                    value |-> get_tracks_distance(a.track, a.artist, a.album, a.year,
                                                  b.track, b.artist, b.album, b.year)]
  /\ UNCHANGED <<inside, descriptors, proc>>

NextDistance == GetTracksDistance

SpecDistance == InitDistance /\ [][NextDistance]_vars

----------------------------------------------------------------------------
(* eumenes.process: the steps around add_tracks_from_CSV.  proc holds its   *)
(* position, its arguments _csv and _xml, whether the csv file exists, its  *)
(* locals am_pl and xml_pl once they are bound, the xml file once written   *)
(* and the exception that left it.                                          *)

\* a local that was never assigned
Unbound == [bound |-> FALSE, value |-> <<>>]

Bound(v) == [bound |-> TRUE, value |-> v]

\* the playlists add_tracks_from_CSV can return: a track of the search
\* results for some of the rows
Playlists ==
  UNION {[1..k -> {t \in Catalogue : Qualifies(t)}] : k \in 0..MaxRows}

\* buildXML: one entry for every song of the playlist, in its order
buildXML(playlist) == [n \in DOMAIN playlist |-> playlist[n].trackName]

\* arrow.get(song['releaseDate']).year inside buildXML
buildXML_raises(playlist) ==
  \E n \in DOMAIN playlist : ~Parseable(playlist[n].releaseDate)

InitProcess ==
  /\ proc \in [pc : {"user_playlist"}, _csv : BOOLEAN, _xml : BOOLEAN,
                csv_file : BOOLEAN, am_pl : {Unbound}, xml_pl : {Unbound},
                xml_file : {Unbound}, raised : {"none"}]
  /\ headers_ok = TRUE
  /\ cfg = Defaults
  /\ Entered
  /\ NoCall

Step(p) == proc' = p /\ UNCHANGED <<inside, descriptors, d_>>

ProcessRaise(e) == Step([proc EXCEPT !.pc = "raise", !.raised = e])

\* sp.user_playlist and the names derived from it
UserPlaylist ==
  /\ proc.pc = "user_playlist"
  /\ Step([proc EXCEPT !.pc = "dump_csv"])

\* if _csv: dump_csv(tracks, pl_path)
DumpCsv ==
  /\ proc.pc = "dump_csv"
  /\ Step([proc EXCEPT !.pc = "isfile",
                       !.csv_file = IF proc._csv THEN TRUE ELSE @])

\* if not os.path.isfile(pl_path): sys.exit(1)
CheckCsv ==
  /\ proc.pc = "isfile"
  /\ IF proc.csv_file
     THEN Step([proc EXCEPT !.pc = "add_tracks_from_CSV"])
     ELSE ProcessRaise("SystemExit")

\* am_pl = add_tracks_from_CSV(...): a playlist, or the exception that left
\* the loop
AddTracksFromCSV ==
  /\ proc.pc = "add_tracks_from_CSV"
  /\ \/ \E playlist \in Playlists :
          Step([proc EXCEPT !.pc = "buildXML", !.am_pl = Bound(playlist)])
     \/ \E e \in {"ParserError", "IndexError"} : ProcessRaise(e)

\* if _xml: xml_pl = buildXML(...); nothing binds xml_pl otherwise
xml_bound(_xml, playlist) ==
  IF _xml THEN Bound(buildXML(playlist)) ELSE Unbound

BuildXML ==
  /\ proc.pc = "buildXML"
  /\ IF proc._xml /\ buildXML_raises(proc.am_pl.value)
     THEN ProcessRaise("ParserError")
     ELSE Step([proc EXCEPT !.pc = "logging",
                           !.xml_pl = xml_bound(proc._xml, proc.am_pl.value)])

\* logging.info(xml_pl): the read of a local that is not bound is an
\* UnboundLocalError
LogXml ==
  /\ proc.pc = "logging"
  /\ IF proc.xml_pl.bound
     THEN Step([proc EXCEPT !.pc = "write"])
     ELSE ProcessRaise("UnboundLocalError")

\* with open(xml_path, "w") as xmlf: xmlf.write(xml_pl)
WriteXml ==
  /\ proc.pc = "write"
  /\ Step([proc EXCEPT !.pc = "done", !.xml_file = proc.xml_pl])

NextProcess ==
  \/ UserPlaylist
  \/ DumpCsv
  \/ CheckCsv
  \/ AddTracksFromCSV
  \/ BuildXML
  \/ LogXml
  \/ WriteXml

SpecProcess == InitProcess /\ [][NextProcess]_vars

----------------------------------------------------------------------------
(* anabasis.selectSong called on its own, with lists of up to MaxSongs      *)
(* songs: the answer actions above, from its first prompt on                *)

\* songs in the list selectSong is called with
MaxSongs == 20

TrackOf(id) == CHOOSE t \in Catalogue : t.trackId = id

\* a list of n songs; which songs they are plays no part in the paging, so
\* the list alternates between two tracks of the catalogue
SongList(n) == [k \in 1..n |-> TrackOf(IF k % 2 = 0 THEN 2 ELSE 3)]

\* selectSong(songs, desiredSong) at its first prompt: page 0 is displayed
InitSelectSong ==
  /\ \E n \in 1..MaxSongs : candidates = SongList(n)
  /\ song \in {s \in Songs : Parseable(s.release_date)}
  /\ pc = "input"
  /\ page = 0
  /\ shown = display(candidates, song, 0)
  /\ chooserCalls = 1
  /\ chooserArg = candidates
  /\ headers_ok = TRUE
  /\ cfg = Defaults
  /\ row = 1
  /\ dist = distance(candidates[1], song)
  /\ selected = None
  /\ am_playlist = <<>>
  /\ found = candidates
  /\ searchLog = <<>>
  /\ distCalls = 0
  /\ ans = ""
  /\ addCalls = <<>>
  /\ addStatus = <<>>
  /\ appended = <<>>
  /\ outcome = "none"
  /\ raised = "none"
  /\ NoCall
  /\ NoProcess

NextSelectSong ==
  \/ AnswerSkip
  \/ AnswerNext
  \/ AnswerPrevious
  \/ AnswerNumber
  \/ AnswerOther

SpecSelectSong == InitSelectSong /\ [][NextSelectSong]_vars

----------------------------------------------------------------------------
(* Properties.  They speak of the current row: `found` is the candidate    *)
(* list the search returned for it, `outcome` its decision once made.      *)

Scoreable(c) == Parseable(c.releaseDate) /\ Parseable(song.release_date)

\* two or more candidates and a distance for each of them
Rankable == Len(found) >= 2 /\ \A n \in DOMAIN found : Scoreable(found[n])

\* the smallest distance among the candidates found
BestDistance ==
  CHOOSE d \in {distance(found[n], song) : n \in DOMAIN found} :
    \A n \in DOMAIN found : d <= distance(found[n], song)

\* the first candidate, in the order of the search results, at that distance
FirstBest ==
  found[CHOOSE n \in DOMAIN found :
          /\ distance(found[n], song) = BestDistance
          /\ \A m \in 1..(n - 1) : distance(found[m], song) # BestDistance]

Count(s, x) == Cardinality({n \in DOMAIN s : s[n] = x})

IsPermutation(s, t) ==
  /\ Len(s) = Len(t)
  /\ \A x \in Range(s) \cup Range(t) : Count(s, x) = Count(t, x)

Ascending(s) ==
  \A m, n \in DOMAIN s : m < n => distance(s[m], song) <= distance(s[n], song)

Position(s, x) == CHOOSE n \in DOMAIN s : s[n] = x

\* candidates at the same distance are in s in the order they have in t
KeepsTies(s, t) ==
  \A m, n \in DOMAIN s :
     (m < n /\ distance(s[m], song) = distance(s[n], song))
       => Position(t, s[m]) < Position(t, s[n])

\* C1: with two or more candidates and the best distance below _err, the
\* top-ranked candidate is selected and selectSong is not called, whatever
\* _auto and _treshold are
C1_RoundingErrorSelects ==
  (outcome # "none" /\ Rankable /\ BestDistance < cfg._err)
    => /\ outcome = "Selected"
       /\ selected = FirstBest
       /\ chooserCalls = 0

C1_Witness ==
  /\ outcome = "Selected"
  /\ Rankable
  /\ BestDistance < cfg._err
  /\ ~cfg._auto
  /\ selected = FirstBest
  /\ found[1] # FirstBest

\* C2: with two or more candidates and the best distance not below _err, the
\* top-ranked candidate is selected without a call of selectSong exactly
\* when _auto is set and the distance is below _treshold
C2_AutoAcceptIffBelowTreshold ==
  (outcome # "none" /\ Rankable /\ BestDistance >= cfg._err)
    => ((chooserCalls = 0 /\ outcome = "Selected" /\ selected = FirstBest)
          <=> (cfg._auto /\ BestDistance < cfg._treshold))

C2_Witness ==
  /\ outcome = "Selected"
  /\ Rankable
  /\ BestDistance >= cfg._err
  /\ cfg._auto
  /\ BestDistance < cfg._treshold
  /\ chooserCalls = 0
  /\ selected = FirstBest

\* C3: selectSong is called at most once for a row, only with two or more
\* candidates none of the two rules accepts, and with all the candidates in
\* ascending order of distance
C3_ChooserOnlyWhenUndecided ==
  /\ chooserCalls <= 1
  /\ chooserCalls = 1
       => /\ Rankable
          /\ BestDistance >= cfg._err
          /\ ~(cfg._auto /\ BestDistance < cfg._treshold)
          /\ IsPermutation(chooserArg, found)
          /\ Ascending(chooserArg)

C3_Witness ==
  /\ pc = "input"
  /\ chooserCalls = 1
  /\ chooserArg # found
  /\ cfg._auto

\* C4: a row without candidates is skipped: no distance is computed,
\* selectSong is not called, no add request is sent, nothing is appended
C4_NoCandidatesSkipped ==
  (outcome # "none" /\ raised # "IOError" /\ Len(found) = 0)
    => /\ outcome = "Skipped"
       /\ distCalls = 0
       /\ chooserCalls = 0
       /\ addCalls = <<>>
       /\ appended = <<>>

C4_Witness ==
  /\ pc = "for"
  /\ outcome = "Skipped"
  /\ Len(found) = 0
  /\ chooserCalls = 0
  /\ selected # None
  /\ Len(am_playlist) = 1

\* C5: the only candidate of a row is selected whatever its distance and
\* the parameters are: no distance is computed, selectSong is not called
C5_OneCandidateSelected ==
  (outcome # "none" /\ Len(found) = 1)
    => /\ outcome = "Selected"
       /\ selected = found[1]
       /\ distCalls = 0
       /\ chooserCalls = 0

C5_Witness ==
  /\ outcome = "Selected"
  /\ Len(found) = 1
  /\ selected = found[1]
  /\ Scoreable(found[1])
  /\ distance(found[1], song) >= cfg._treshold
  /\ distance(found[1], song) >= cfg._err
  /\ ~cfg._auto

\* C6: the ranking is a permutation of the candidates found, in
\* non-decreasing order of distance, candidates at the same distance in the
\* order of the search results; its head is the first best candidate
C6_RankingStablePermutation ==
  (Rankable /\ pc # "candidates")
    => /\ IsPermutation(candidates, found)
       /\ Ascending(candidates)
       /\ KeepsTies(candidates, found)
       /\ candidates[1] = FirstBest

C6_Witness ==
  /\ Rankable
  /\ pc = "decide"
  /\ distance(candidates[1], song) = distance(candidates[2], song)
  /\ candidates[1].trackId > candidates[2].trackId

\* C7: a candidate whose distance cannot be computed is left out of the
\* ranking and nothing more: no exception leaves the resolution, the other
\* candidates are decided on, and the row is skipped when none can be scored
C7_ScoringFailureIsolated ==
  (outcome # "none" /\ Len(found) >= 2
     /\ \E n \in DOMAIN found : ~Scoreable(found[n]))
    => LET viable == SelectSeq(found, Scoreable)
       IN /\ outcome # "Raised"
          /\ viable = <<>> => outcome = "Skipped"
          /\ outcome = "Selected" => selected \in Range(viable)

\* C8: no failure while searching, scoring or adding the track of a row
\* ends the loop: it goes on with the next row and returns the playlist.
\* Stated for the runs that can read their configuration files.
C8_MigrationNeverAborts == headers_ok => pc # "raise"

Commands == {"s", "S", "n", "N", "p", "P"}

\* C9: selectSong answers a text that is no command and no number, and a
\* number that is no index of the list, with the first candidate or with a
\* skip, and does not fail
C9_ChooserToleratesAnswer ==
  (chooserCalls = 1 /\ outcome # "none" /\ ans \notin Commands
     /\ (~isdigit(ans) \/ int(ans) >= Len(chooserArg)))
    => /\ raised = "none"
       /\ \/ outcome = "Skipped"
          \/ outcome = "Selected" /\ selected = chooserArg[1]

\* the one arrangement of the candidates found that is in ascending order
\* of distance and keeps the search order among equals
Ranking ==
  CHOOSE s \in [DOMAIN found -> Range(found)] :
    IsPermutation(s, found) /\ Ascending(s) /\ KeepsTies(s, found)

\* the rules accept the best candidate of the row
Accepted ==
  \/ BestDistance < cfg._err
  \/ cfg._auto /\ BestDistance < cfg._treshold

Deferred == Rankable /\ ~Accepted

\* the decision for the row as a function of the row, the candidates found,
\* the parameters and the last answer, and of nothing else
ExpectedOutcome ==
  IF Len(found) = 0 THEN "Skipped"
  ELSE IF Len(found) = 1 THEN "Selected"
  ELSE IF ~Rankable THEN "Raised"
  ELSE IF Accepted THEN "Selected"
  ELSE IF ans \in {"s", "S"} THEN "Skipped"
  ELSE IF ans \in {"0", "1", "7"} /\ int(ans) >= Len(found) THEN "Raised"
  ELSE "Selected"

ExpectedPick ==
  IF Len(found) = 1 THEN found[1]
  ELSE IF Accepted THEN FirstBest
  ELSE IF ans \in {"0", "1", "7"} THEN Ranking[int(ans) + 1]
  ELSE Ranking[1]

\* C10: the decision for a row, the list handed to selectSong and the track
\* handed to the add step depend on the row, its candidates, the parameters
\* and the answers only, not on the rows before it
C10_DecisionFromRowAlone ==
  (outcome # "none" /\ raised # "IOError")
    => /\ outcome = ExpectedOutcome
       /\ outcome = "Selected" => selected = ExpectedPick
       /\ chooserCalls = (IF Deferred THEN 1 ELSE 0)
       /\ Deferred => chooserArg = Ranking
       /\ \A n \in DOMAIN addCalls :
             outcome = "Selected" /\ addCalls[n] = ExpectedPick.trackId
       /\ \A n \in DOMAIN appended :
             outcome = "Selected" /\ appended[n] = ExpectedPick

C10_Witness ==
  /\ pc = "for"
  /\ row = 2
  /\ outcome = "Selected"
  /\ chooserCalls = 1
  /\ Len(am_playlist) = 2
  /\ am_playlist[1] # am_playlist[2]
  /\ am_playlist[2] = ExpectedPick
  /\ ExpectedPick # FirstBest

\* C11: get_tracks_distance of two descriptors with the same title, artist
\* and album strings (empty ones and ones of junk characters only among
\* them) and the same release date is exactly 0
C11_IdenticalTracksAtZero ==
  (/\ d_.state # "none"
   /\ descriptors[1] = descriptors[2]
   /\ Parseable(descriptors[1].year))
    => d_ = [state |-> "returned", value |-> 0]

C11_Witness ==
  /\ d_ = [state |-> "returned", value |-> 0]
  /\ descriptors[1] = descriptors[2]
  /\ descriptors[1].track = <<".", "(">>
  /\ descriptors[1].artist = <<>>
  /\ descriptors[1].album = <<"(">>

\* C12: with _xml false and every other step a success (the csv file is
\* there, add_tracks_from_CSV returned), process builds no XML, writes no
\* XML file and ends normally
C12_NoXmlStillTerminates ==
  (~proc._xml /\ proc.am_pl.bound)
    => /\ proc.pc # "raise"
       /\ ~proc.xml_pl.bound
       /\ ~proc.xml_file.bound

\* what selectSong returns for the last answer, from the list it was called
\* with
ChooserReturn ==
  IF ans \in {"0", "1", "7"} THEN chooserArg[int(ans) + 1] ELSE chooserArg[1]

\* C13: after a deferral the answer of selectSong is the outcome for the
\* row.  The candidate it returns is the one selected, the only one an add
\* request is sent for and the only one appended; if it returns the skip,
\* no add request is sent and nothing is appended for the row.
C13_ChooserAnswerIsOutcome ==
  /\ (chooserCalls = 1 /\ outcome = "Selected")
       => /\ selected = ChooserReturn
          /\ Len(addCalls) <= 1 /\ Len(appended) <= 1
          /\ \A n \in DOMAIN addCalls : addCalls[n] = ChooserReturn.trackId
          /\ \A n \in DOMAIN appended : appended[n] = ChooserReturn
          /\ pc = "for" => IF cfg._add_tracks
                           THEN addCalls = <<ChooserReturn.trackId>>
                           ELSE appended = <<ChooserReturn>>
  /\ (chooserCalls = 1 /\ ans \in {"s", "S"})
       => /\ outcome = "Skipped"
          /\ pc = "for"
          /\ addCalls = <<>>
          /\ appended = <<>>

C13_Witness ==
  /\ pc = "for"
  /\ row = 2
  /\ chooserCalls = 1
  /\ ans = "1"
  /\ cfg._add_tracks
  /\ addCalls = <<chooserArg[2].trackId>>
  /\ appended = <<chooserArg[2]>>
  /\ Len(am_playlist) = 2
  /\ am_playlist[1] = chooserArg[1]

\* one step of the run, as C14 wants it
PlaylistStep ==
  LET grows == am_playlist' # am_playlist
      added == pc = "add" /\ pc' = "for"
  IN /\ grows => /\ added
                 /\ appended = <<>>
                 /\ am_playlist' = Append(am_playlist, selected)
     /\ Len(am_playlist') <= row'
     /\ (added /\ cfg._add_tracks)
          => /\ addCalls' = <<selected.trackId>>
             /\ Len(addStatus') = 1
             /\ grows <=> addStatus'[1] = 200
     /\ (added /\ ~cfg._add_tracks) => grows
     /\ ~cfg._add_tracks => addCalls' = <<>> /\ addStatus' = <<>>

\* C14: the playlist grows by at most one entry for a row, at its end and
\* in the order of the rows.  With _add_tracks the selected candidate of a
\* row joins it exactly when its add request returned 200; without, every
\* selected candidate joins it and no add request is ever sent.
C14_PlaylistOfAddedTracks == [][PlaylistStep]_vars

C14_Witness ==
  /\ pc = "for"
  /\ row = 2
  /\ cfg._add_tracks
  /\ outcome = "Selected"
  /\ addStatus = <<403>>
  /\ appended = <<>>
  /\ Len(am_playlist) = 1
  /\ am_playlist[1] = selected

\* what a call of searchSongs may do: one request, or a request answered
\* 403, the sleep and a second request
OneRequest ==
  /\ Len(searchLog) = 1
  /\ searchLog[1].call = "requests.get"
  /\ searchLog[1].status # 403

RequestSleepRequest ==
  /\ Len(searchLog) = 3
  /\ searchLog[1].call = "requests.get" /\ searchLog[1].status = 403
  /\ searchLog[2] = Sleep
  /\ searchLog[3].call = "requests.get"

RequestSleepRaises ==
  /\ Len(searchLog) = 2
  /\ searchLog[1].call = "requests.get" /\ searchLog[1].status = 403
  /\ searchLog[2] = SleepRaises

\* the call returned [] if its last step raised or got nothing usable
EmptyIfUnusable ==
  LET last == searchLog[Len(searchLog)]
  IN (last.status = 0 \/ ~last.usable) => (found = <<>> /\ candidates = <<>>)

SearchReturned == pc = "candidates"

\* C15 as stated: at most two requests, the second only after a 403 and
\* the sleep, never a third; any exception and any unusable response end
\* in the empty list, and searchSongs raises nothing
C15_SearchNeverRaises ==
  /\ SearchReturned
       => /\ OneRequest \/ RequestSleepRequest \/ RequestSleepRaises
          /\ EmptyIfUnusable
  /\ raised # "IOError"

\* C15 as amended: the same for the requests and for every exception and
\* unusable response inside the try block; the one exception searchSongs
\* raises is that of reading headers.conf or the storefront list, before
\* any request
C15_SearchRequestsBounded ==
  /\ SearchReturned
       => /\ OneRequest \/ RequestSleepRequest \/ RequestSleepRaises
          /\ EmptyIfUnusable
  /\ raised = "IOError" => (~headers_ok /\ searchLog = <<>> /\ found = <<>>)
  /\ headers_ok => raised # "IOError"

C15_Witness ==
  /\ SearchReturned
  /\ RequestSleepRequest
  /\ searchLog[3].status = 403
  /\ found = <<>>
  /\ row = 2
  /\ Len(am_playlist) = 1

\* C16: an add request answered 403 is sent once more for the same track
\* before addTrack reports the track as not added
C16_AddRetriedAfter403 ==
  (pc # "add" /\ addStatus # <<>> /\ addStatus[1] = 403)
    => /\ Len(addCalls) = 2
       /\ addCalls[2] = addCalls[1]
       /\ Len(addStatus) = 2

\* C17: at every prompt of selectSong the page index is not negative and
\* the page displayed holds a candidate: page * 10 is less than the number
\* of candidates, also when that number is a multiple of 10
C17_PageHoldsCandidate ==
  pc = "input"
    => /\ page >= 0
       /\ page * pageSize < Len(candidates)
       /\ shown # <<>>

\* C18: the distance displayCandidates shows for a candidate is the one the
\* candidate was ranked by, so that the distances shown on a page do not
\* decrease down the list
C18_ShownDistanceIsRanking ==
  (pc = "input" /\ chooserCalls = 1)
    => /\ \A n \in DOMAIN shown :
             shown[n][2] = distance(candidates[shown[n][1] + 1], song)
       /\ \A m, n \in DOMAIN shown : m < n => shown[m][2] <= shown[n][2]

====
